---- MODULE Spec2Model ----
(***************************************************************************)
(* A model of the two programs of dbglab-bctools:                          *)
(*                                                                         *)
(*   py/merge_bc_dfs.py          main -> load_csv_file, reduce_dataframes  *)
(*                               (rounds of pair merges on a thread pool)  *)
(*                               and the finalizer of main                 *)
(*   py/itam_costim_bc_regex.py  main: the line loop, the stats counters   *)
(*                               and the aggregation of the records        *)
(*                                                                         *)
(* The five key columns HEADER_COLS of a row are one integer key; a sample *)
(* column is named by the position of its file in file_names (file names   *)
(* are taken to be distinct).  The dropped column sl_o is not represented: *)
(* two raw rows of one file with the same key are rows that differed only  *)
(* in sl_o.                                                                *)
(*                                                                         *)
(* A round's executor is ThreadPoolExecutor(): at least five workers, more *)
(* than the pairs of a round here, so a pending work item can be taken at  *)
(* any time.  pd.merge may raise in a worker (a table without a key        *)
(* column, no memory): whether a merge returns or raises is the            *)
(* environment's choice.  executor.map yields the results in pair order    *)
(* and re-raises a work item's exception in the main thread; the iterator  *)
(* then cancels the work items still pending, and leaving the with block   *)
(* waits for the running ones.                                             *)
(*                                                                         *)
(* In the decoder the fuzzy pattern is not represented: a sequence is      *)
(* either one the pattern does not match or one it decodes to a key, the   *)
(* key standing for the six group columns header[1:].                      *)
(***************************************************************************)
EXTENDS Integers, Sequences, FiniteSets, TLC

\* ---------------------------------------------------------------- bounds
MaxN == 4          \* most input files of the merge program
NumKeys == 2       \* distinct keys in generated input files
MaxCount == 2      \* largest count of a generated raw row
MaxRows == 2       \* most raw rows over all generated input files together
MaxFairRows == 1   \* the same, for the inputs of the liveness specification
MaxIter == 3       \* most rounds of the while loop that are explored

\* ------------------------------------------------------- merge program
VARIABLES
    files,       \* main: the raw rows of each input file (sl_o dropped)
    dfs,         \* main: the loaded SampleTables
    paired_dfs,  \* reduce_dataframes
    odd_dfs,     \* reduce_dataframes
    merged_dfs,  \* reduce_dataframes
    round_num,   \* reduce_dataframes
    tasks,       \* every work item submitted to a ThreadPoolExecutor so far
    results,     \* the list that list(executor.map(...)) is building
    iter,        \* number of passes of the while loop started
    pc,          \* position of the main thread
    merged_df,   \* main: <<>> or <<the table reduce_dataframes returned>>
    final        \* main: <<>> or <<the rows main returned>>

mvars == <<files, dfs, paired_dfs, odd_dfs, merged_dfs, round_num, tasks,
           results, iter, pc, merged_df, final>>

\* ------------------------------------------------------ decoder program
VARIABLES
    MAX_SEQS,       \* the module tunable, Infinity as shipped
    consumed,       \* the lines the for loop has taken from bc_file
    bc_table_list,  \* main
    stats,          \* main
    no_counts,      \* main: "None", "True" or "False"
    warnings,       \* how often the seqs-only warning was printed to stderr
    df,             \* main: the DataFrame written to stdout
    dpc             \* position of main

dvars == <<MAX_SEQS, consumed, bc_table_list, stats, no_counts, warnings, df,
           dpc>>

vars == <<files, dfs, paired_dfs, odd_dfs, merged_dfs, round_num, tasks,
          results, iter, pc, merged_df, final, MAX_SEQS, consumed,
          bc_table_list, stats, no_counts, warnings, df, dpc>>

\* the value pandas leaves in a count cell the outer join could not fill
NaN == -1

Last(s) == s[Len(s)]
Front(s) == SubSeq(s, 1, Len(s) - 1)

RECURSIVE SortedKeys(_)
SortedKeys(S) ==
    IF S = {} THEN <<>>
    ELSE LET m == CHOOSE x \in S : \A y \in S : x <= y
         IN  <<m>> \o SortedKeys(S \ {m})

RECURSIVE SumSeq(_)
SumSeq(s) == IF s = <<>> THEN 0 ELSE s[1] + SumSeq(Tail(s))

RowsWithKey(rows, k) == SelectSeq(rows, LAMBDA r : r.key = k)

KeySet(rows) == {rows[i].key : i \in DOMAIN rows}

RECURSIVE Flatten(_)
Flatten(ss) == IF ss = <<>> THEN <<>> ELSE ss[1] \o Flatten(Tail(ss))

\* df.groupby(HEADER_COLS).agg({'count': 'sum'}).reset_index(): one row per
\* key, in key order, holding the sum of the counts of the key's rows
groupby_sum(rows) ==
    LET ks == SortedKeys(KeySet(rows))
    IN  [i \in DOMAIN ks |->
            LET g == RowsWithKey(rows, ks[i])
            IN  [key |-> ks[i],
                 count |-> SumSeq([j \in DOMAIN g |-> g[j].count])]]

\* load_csv_file: the table of one file, its count column renamed to the sample
load_csv_file(rows, name) ==
    LET g == groupby_sum(rows)
    IN  [cols |-> {name},
         rows |-> [i \in DOMAIN g |->
                     [key |-> g[i].key, vals |-> (name :> g[i].count)]]]

\* the joined row of a left and a right row of one key
JoinRow(k, l, r) == [key |-> k, vals |-> l.vals @@ r.vals]

NaNRow(cols) == [vals |-> [c \in cols |-> NaN]]

\* the rows of key k in pd.merge(df1, df2, on=HEADER_COLS, how='outer'):
\* every left row of k with every right row of k; a side without the key
\* contributes unset cells
JoinKey(df1, df2, k) ==
    LET L == RowsWithKey(df1.rows, k)
        R == RowsWithKey(df2.rows, k)
    IN  IF L = <<>>
        THEN [j \in DOMAIN R |-> JoinRow(k, NaNRow(df1.cols), R[j])]
        ELSE IF R = <<>>
        THEN [i \in DOMAIN L |-> JoinRow(k, L[i], NaNRow(df2.cols))]
        ELSE [n \in 1..(Len(L) * Len(R)) |->
                 JoinRow(k, L[((n - 1) \div Len(R)) + 1],
                            R[((n - 1) % Len(R)) + 1])]

\* how='inner': only the keys that both tables hold
merge_inner(pair) ==
    LET df1 == pair[1]
        df2 == pair[2]
        ks == SortedKeys(KeySet(df1.rows) \cap KeySet(df2.rows))
    IN  [cols |-> df1.cols \cup df2.cols,
         rows |-> Flatten([i \in DOMAIN ks |-> JoinKey(df1, df2, ks[i])])]

\* how='left': only the keys of the left table
merge_left(pair) ==
    LET df1 == pair[1]
        df2 == pair[2]
        ks == SortedKeys(KeySet(df1.rows))
    IN  [cols |-> df1.cols \cup df2.cols,
         rows |-> Flatten([i \in DOMAIN ks |-> JoinKey(df1, df2, ks[i])])]

\* pd.merge(df1, df2, on=HEADER_COLS, how='outer')
outer_join(pair) ==
    LET df1 == pair[1]
        df2 == pair[2]
        ks == SortedKeys(KeySet(df1.rows) \cup KeySet(df2.rows))
    IN  [cols |-> df1.cols \cup df2.cols,
         rows |-> Flatten([i \in DOMAIN ks |-> JoinKey(df1, df2, ks[i])])]

merge_dataframes(pair) == outer_join(pair)

\* list(zip(s[::2], s[1::2]))
zip_pairs(s) == [i \in 1..(Len(s) \div 2) |-> <<s[2 * i - 1], s[2 * i]>>]


\* --------------------------------------------------------------- inputs
RawRows == [key : 1..NumKeys, count : 1..MaxCount]

\* the Aggregator writes its rows by count descending
Before(a, b) == a.count > b.count \/ (a.count = b.count /\ a.key <= b.key)

RawFilesOfLen(l) ==
    {f \in [1..l -> RawRows] : \A i \in 1..(l - 1) : Before(f[i], f[i + 1])}

\* the lists of n input files that hold at most t rows together
RECURSIVE FileLists(_, _)
FileLists(n, t) ==
    IF n = 0 THEN {<<>>}
    ELSE UNION {{<<f>> \o rest : rest \in FileLists(n - 1, t - Len(f))} :
                    f \in UNION {RawFilesOfLen(l) : l \in 0..t}}

\* spec.md section 8: A = {(k1,1),(k2,2)}, B = {(k2,3),(k3,4)}
ScenarioAB ==
    << <<[key |-> 2, count |-> 2], [key |-> 1, count |-> 1]>>,
       <<[key |-> 3, count |-> 4], [key |-> 2, count |-> 3]>> >>

\* four overlapping tables; the last file holds one key in two raw rows
ScenarioFour ==
    ScenarioAB \o
    << <<[key |-> 1, count |-> 5], [key |-> 3, count |-> 1]>>,
       <<[key |-> 2, count |-> 2], [key |-> 2, count |-> 1],
         [key |-> 4, count |-> 1]>> >>

Inputs ==
    UNION {FileLists(n, MaxRows) : n \in 0..MaxN}
        \cup {ScenarioAB, ScenarioFour}

\* scheduling does not read the rows: the liveness specification explores the
\* same numbers of files with fewer rows
FairInputs == UNION {FileLists(n, MaxFairRows) : n \in 0..MaxN}

\* ---------------------------------------------------------- main thread
\* main, lines 122-126: every file is loaded, in file_names order
MainLoad ==
    /\ pc = "load"
    /\ dfs' = [i \in DOMAIN files |-> load_csv_file(files[i], i)]
    /\ pc' = "reduce"
    /\ UNCHANGED <<files, paired_dfs, odd_dfs, merged_dfs, round_num, tasks,
                   results, iter, merged_df, final>>
    /\ UNCHANGED dvars

\* reduce_dataframes, lines 47-52
ReduceEntry ==
    /\ pc = "reduce"
    /\ paired_dfs' = zip_pairs(dfs)
    /\ round_num' = 0
    /\ odd_dfs' = IF Len(dfs) % 2 = 1 THEN <<Last(dfs)>> ELSE <<>>
    /\ pc' = "dispatch"
    /\ UNCHANGED <<files, dfs, merged_dfs, tasks, results, iter, merged_df,
                   final>>
    /\ UNCHANGED dvars

\* lines 58-63: merged_dfs = [], a new executor, and executor.map submits one
\* work item per pair before any result is taken
Dispatch ==
    /\ pc = "dispatch"
    /\ iter < MaxIter
    /\ iter' = iter + 1
    /\ merged_dfs' = <<>>
    /\ results' = <<>>
    /\ tasks' = tasks \o
          [i \in DOMAIN paired_dfs |->
              [round |-> iter + 1, pair |-> paired_dfs[i],
               state |-> "pending", result |-> <<>>]]
    /\ pc' = "collect"
    /\ UNCHANGED <<files, dfs, paired_dfs, odd_dfs, round_num, merged_df,
                   final>>
    /\ UNCHANGED dvars

\* the work items of the executor of the current round
Base == Len(tasks) - Len(paired_dfs)
CurTasks == {i \in DOMAIN tasks : tasks[i].round = iter}
NextTask == Base + Len(results) + 1

\* list(...) takes the results in pair order and waits for the next one
Collect ==
    /\ pc = "collect"
    /\ Len(results) < Len(paired_dfs)
    /\ tasks[NextTask].state = "done"
    /\ results' = Append(results, tasks[NextTask].result[1])
    /\ UNCHANGED <<files, dfs, paired_dfs, odd_dfs, merged_dfs, round_num,
                   tasks, iter, pc, merged_df, final>>
    /\ UNCHANGED dvars

\* the next result is an exception: it is raised in the main thread, the
\* result iterator cancels the work items no worker has taken, and the with
\* block starts executor.shutdown(wait=True)
RaiseFailureSwallowed ==
    /\ pc = "collect"
    /\ Len(results) < Len(paired_dfs)
    /\ tasks[NextTask].state = "failed"
    /\ results' = Append(results, tasks[NextTask].pair[1])
    /\ UNCHANGED <<files, dfs, paired_dfs, odd_dfs, merged_dfs, round_num,
                   tasks, iter, pc, merged_df, final>>
    /\ UNCHANGED dvars

RaiseFailure ==
    /\ pc = "collect"
    /\ Len(results) < Len(paired_dfs)
    /\ tasks[NextTask].state = "failed"
    /\ tasks' = [i \in DOMAIN tasks |->
                    IF i \in CurTasks /\ tasks[i].state = "pending"
                    THEN [tasks[i] EXCEPT !.state = "cancelled"]
                    ELSE tasks[i]]
    /\ pc' = "shutdown"
    /\ UNCHANGED <<files, dfs, paired_dfs, odd_dfs, merged_dfs, round_num,
                   results, iter, merged_df, final>>
    /\ UNCHANGED dvars

\* shutdown(wait=True) joins the workers: the running work items finish first;
\* then the exception leaves reduce_dataframes and main
ShutdownWait ==
    /\ pc = "shutdown"
    /\ \A i \in CurTasks : tasks[i].state # "running"
    /\ pc' = "raised"
    /\ UNCHANGED <<files, dfs, paired_dfs, odd_dfs, merged_dfs, round_num,
                   tasks, results, iter, merged_df, final>>
    /\ UNCHANGED dvars

\* list(executor.map(...)) has every result of the round
RoundCompleteEarly == Len(results) >= 1 \/ Len(paired_dfs) = 0
RoundComplete == Len(results) = Len(paired_dfs)

\* lines 66-67 without the pop: the leftover stays in odd_dfs
TakeLeftoverNoPop ==
    [merged |-> results \o (IF Len(odd_dfs) > 0 THEN <<Last(odd_dfs)>> ELSE <<>>),
     odd |-> odd_dfs]

\* lines 63-67: merged_dfs of the round, the leftover appended and popped
TakeLeftover ==
    [merged |-> results \o (IF Len(odd_dfs) > 0 THEN <<Last(odd_dfs)>> ELSE <<>>),
     odd |-> IF Len(odd_dfs) > 0 THEN Front(odd_dfs) ELSE odd_dfs]

\* lines 63-87 and main line 128: the round ends
EndRound ==
    /\ pc = "collect"
    /\ RoundComplete
    /\ LET m == TakeLeftover.merged
           o == TakeLeftover.odd
       IN  /\ paired_dfs' = zip_pairs(m)
           /\ IF Len(m) = 1
              THEN /\ merged_dfs' = m
                   /\ odd_dfs' = o
                   /\ round_num' = round_num
                   /\ merged_df' = <<m[1]>>
                   /\ pc' = "finalize"
              ELSE IF Len(m) % 2 = 1
              THEN /\ merged_dfs' = Front(m)
                   /\ odd_dfs' = Append(o, Last(m))
                   /\ round_num' = round_num
                   /\ merged_df' = merged_df
                   /\ pc' = "dispatch"
              ELSE /\ merged_dfs' = m
                   /\ odd_dfs' = o
                   /\ round_num' = round_num + 1
                   /\ merged_df' = merged_df
                   /\ pc' = "dispatch"
    /\ UNCHANGED <<files, dfs, tasks, results, iter, final>>
    /\ UNCHANGED dvars

\* --------------------------------------------------------- pool workers
\* a worker thread takes a work item off the queue
StartTask(i) ==
    /\ tasks[i].state = "pending"
    /\ tasks' = [tasks EXCEPT ![i].state = "running"]
    /\ UNCHANGED <<files, dfs, paired_dfs, odd_dfs, merged_dfs, round_num,
                   results, iter, pc, merged_df, final>>
    /\ UNCHANGED dvars

\* merge_dataframes returns, or pd.merge raises in the worker
FinishTask(i) ==
    /\ tasks[i].state = "running"
    /\ \E ok \in BOOLEAN :
          tasks' = [tasks EXCEPT ![i] =
                      IF ok
                      THEN [tasks[i] EXCEPT
                               !.state = "done",
                               !.result = <<merge_dataframes(tasks[i].pair)>>]
                      ELSE [tasks[i] EXCEPT !.state = "failed"]]
    /\ UNCHANGED <<files, dfs, paired_dfs, odd_dfs, merged_dfs, round_num,
                   results, iter, pc, merged_df, final>>
    /\ UNCHANGED dvars

\* ------------------------------------------------------------ finalizer
\* fillna(value={i: 0 for i in count_cols}) and astype(int)
fillna(vals) == [c \in DOMAIN vals |-> IF vals[c] = NaN THEN 0 ELSE vals[c]]

RECURSIVE SumOver(_, _)
SumOver(f, S) ==
    IF S = {} THEN 0
    ELSE LET c == CHOOSE x \in S : TRUE IN f[c] + SumOver(f, S \ {c})

\* merged_df.loc[:, count_cols].sum(axis=1)
row_total(vals) == SumOver(vals, DOMAIN vals)

n_samples_nonneg(vals) == Cardinality({c \in DOMAIN vals : vals[c] >= 0})

\* (merged_df[count_cols] > 0).sum(axis=1)
n_samples(vals) == Cardinality({c \in DOMAIN vals : vals[c] > 0})

Perms(n) == {p \in [1..n -> 1..n] : \A i, j \in 1..n : p[i] = p[j] => i = j}

\* sort_values(by='total', ascending=False): the orders a sort may leave,
\* the order of equal totals being the sort's choice
sort_orders(rows) ==
    {p \in Perms(Len(rows)) :
        \A i, j \in 1..Len(rows) : i < j => rows[p[i]].total >= rows[p[j]].total}

\* main, lines 130-147
Finalize ==
    /\ pc = "finalize"
    /\ LET m == merged_df[1]
           filled == [i \in DOMAIN m.rows |->
                        LET v == fillna(m.rows[i].vals)
                        IN  [key |-> m.rows[i].key, vals |-> v,
                             total |-> row_total(v),
                             n_samples |-> n_samples(v)]]
       IN  \E p \in sort_orders(filled) :
              final' = <<[i \in DOMAIN filled |-> filled[p[i]]]>>
    /\ pc' = "done"
    /\ UNCHANGED <<files, dfs, paired_dfs, odd_dfs, merged_dfs, round_num,
                   tasks, results, iter, merged_df>>
    /\ UNCHANGED dvars


\* ------------------------------------------------------ decoder program
MaxLines == 3      \* most input lines read
MaxWeight == 2     \* largest weight prefix of an input line
NumSeqs == 2       \* distinct sequences that match the barcode pattern
MaxSeqsLimit == 2  \* the finite setting of MAX_SEQS that is explored

MIN_COUNT == 1
KEEP_BC == FALSE
\* float('inf'): more than any number of lines read
Infinity == MaxLines + 1
\* the None of an unmatched record's fields
None == 0

\* a line is its number of whitespace-separated parts, its weight prefix and
\* its sequence: sequence 0 stands for the sequences the pattern does not
\* match within MAX_MATCH_DIST, s >= 1 for those it decodes to the key s
Lines ==
    [parts : {1}, weight : {1}, seq : 0..NumSeqs]
        \cup [parts : {2}, weight : 0..MaxWeight, seq : 0..NumSeqs]
        \cup [parts : {0}, weight : {0}, seq : {0}]

\* process_bc_seq_line: None, or the decoded record with its count
process_bc_seq_line(seq_str, line_count) ==
    IF seq_str = 0 THEN <<>>
    ELSE <<[key |-> seq_str, count |-> line_count]>>

ZeroStats ==
    [total_lines |-> 0, total_counts |-> 0, skipped_lines |-> 0,
     skipped_counts |-> 0, matched_lines |-> 0, matched_counts |-> 0,
     unmatched_lines |-> 0, unmatched_counts |-> 0, merged_lines |-> 0]

\* lines 126-149 with the continue of line 129 left out
TallyNoContinue(line_count, seq_str) ==
    LET s1 == [stats EXCEPT !.total_lines = @ + 1,
                            !.total_counts = @ + line_count]
        s2 == IF line_count < MIN_COUNT
              THEN [s1 EXCEPT !.skipped_lines = @ + 1,
                              !.skipped_counts = @ + line_count]
              ELSE s1
        m == process_bc_seq_line(seq_str, line_count)
    IN  IF m = <<>>
        THEN [stats |-> [s2 EXCEPT !.unmatched_lines = @ + 1,
                                   !.unmatched_counts = @ + line_count],
              list |-> Append(bc_table_list,
                              [key |-> None, count |-> line_count]),
              stop |-> s2.total_lines > MAX_SEQS]
        ELSE [stats |-> [s2 EXCEPT !.matched_lines = @ + 1,
                                   !.matched_counts = @ + line_count],
              list |-> Append(bc_table_list, m[1]),
              stop |-> s2.total_lines > MAX_SEQS]

\* lines 123-149: the counters, the record list and whether the loop breaks
Tally(line_count, seq_str) ==
    LET s1 == [stats EXCEPT !.total_lines = @ + 1,
                            !.total_counts = @ + line_count]
        m == process_bc_seq_line(seq_str, line_count)
    IN  IF line_count < MIN_COUNT
        THEN [stats |-> [s1 EXCEPT !.skipped_lines = @ + 1,
                                   !.skipped_counts = @ + line_count],
              list |-> bc_table_list,
              stop |-> FALSE]
        ELSE IF m = <<>>
        THEN [stats |-> [s1 EXCEPT !.unmatched_lines = @ + 1,
                                   !.unmatched_counts = @ + line_count],
              list |-> Append(bc_table_list,
                              [key |-> None, count |-> line_count]),
              stop |-> s1.total_lines > MAX_SEQS]
        ELSE [stats |-> [s1 EXCEPT !.matched_lines = @ + 1,
                                   !.matched_counts = @ + line_count],
              list |-> Append(bc_table_list, m[1]),
              stop |-> s1.total_lines > MAX_SEQS]

\* one pass of the for loop, lines 103-149, over a line of one or two parts
ProcessLine ==
    /\ dpc = "loop"
    /\ Len(consumed) < MaxLines
    /\ \E line \in {l \in Lines : l.parts # 0} :
          LET t == Tally(line.weight, line.seq)
          IN  /\ consumed' = Append(consumed, line)
              /\ warnings' = IF line.parts = 1 /\ no_counts # "True"
                             THEN warnings + 1 ELSE warnings
              /\ no_counts' = IF line.parts = 1 THEN "True" ELSE "False"
              /\ stats' = t.stats
              /\ bc_table_list' = t.list
              /\ dpc' = IF t.stop THEN "aggregate" ELSE "loop"
    /\ UNCHANGED <<MAX_SEQS, df>>
    /\ UNCHANGED mvars

\* a blank line: line_parts[0] at line 119 raises IndexError
BlankLine ==
    /\ dpc = "loop"
    /\ Len(consumed) < MaxLines
    /\ \E line \in {l \in Lines : l.parts = 0} :
          consumed' = Append(consumed, line)
    /\ dpc' = "crashed"
    /\ UNCHANGED <<MAX_SEQS, bc_table_list, stats, no_counts, warnings, df>>
    /\ UNCHANGED mvars

\* bc_file is exhausted
EndOfInput ==
    /\ dpc = "loop"
    /\ dpc' = "aggregate"
    /\ UNCHANGED <<MAX_SEQS, consumed, bc_table_list, stats, no_counts,
                   warnings, df>>
    /\ UNCHANGED mvars

\* sort_values('count', ascending=False)
count_orders(rows) ==
    {p \in Perms(Len(rows)) :
        \A i, j \in 1..Len(rows) : i < j => rows[p[i]].count >= rows[p[j]].count}

\* df.groupby(header[1:]): groupby leaves out the rows whose key is None
dropna(rows) == SelectSeq(rows, LAMBDA r : r.key # None)

\* lines 151-172: without a matched record the frame has no sl_o and sl_num
\* column and groupby raises KeyError
Aggregate ==
    /\ dpc = "aggregate"
    /\ IF KEEP_BC
       THEN /\ df' = bc_table_list
            /\ stats' = [stats EXCEPT !.merged_lines = Len(bc_table_list)]
            /\ dpc' = "done"
       ELSE IF dropna(bc_table_list) = <<>>
       THEN /\ dpc' = "crashed"
            /\ UNCHANGED <<df, stats>>
       ELSE LET g == groupby_sum(dropna(bc_table_list))
            IN  /\ \E p \in count_orders(g) :
                      df' = [i \in DOMAIN g |-> g[p[i]]]
                /\ stats' = [stats EXCEPT !.merged_lines = Len(g)]
                /\ dpc' = "done"
    /\ UNCHANGED <<MAX_SEQS, consumed, bc_table_list, no_counts, warnings>>
    /\ UNCHANGED mvars

\* ------------------------------------------------------- specifications
MergeIdle ==
    /\ files = <<>> /\ dfs = <<>> /\ paired_dfs = <<>> /\ odd_dfs = <<>>
    /\ merged_dfs = <<>> /\ round_num = 0 /\ tasks = <<>> /\ results = <<>>
    /\ iter = 0 /\ merged_df = <<>> /\ final = <<>>

DecoderIdle ==
    /\ MAX_SEQS = Infinity /\ consumed = <<>> /\ bc_table_list = <<>>
    /\ stats = ZeroStats /\ no_counts = "None" /\ warnings = 0 /\ df = <<>>

\* the merge program is started on a list of files
InitOn(inputs) ==
    /\ files \in inputs
    /\ dfs = <<>> /\ paired_dfs = <<>> /\ odd_dfs = <<>>
    /\ merged_dfs = <<>> /\ round_num = 0 /\ tasks = <<>> /\ results = <<>>
    /\ iter = 0 /\ merged_df = <<>> /\ final = <<>>
    /\ pc = "load"
    /\ DecoderIdle /\ dpc = "idle"

Init == InitOn(Inputs)

Next ==
    \/ MainLoad
    \/ ReduceEntry
    \/ Dispatch
    \/ Collect
    \/ RaiseFailure
    \/ ShutdownWait
    \/ EndRound
    \/ Finalize
    \/ \E i \in DOMAIN tasks : StartTask(i)
    \/ \E i \in DOMAIN tasks : FinishTask(i)

Spec == Init /\ [][Next]_vars

\* the main thread and the pool's workers are scheduled again and again: a
\* step that can be taken is taken
FairInit == InitOn(FairInputs)

FairSpec == FairInit /\ [][Next]_vars /\ WF_vars(Next)

\* the decoder is started on an input stream
DecoderInit ==
    /\ MergeIdle /\ pc = "idle"
    /\ MAX_SEQS \in {MaxSeqsLimit, Infinity}
    /\ consumed = <<>> /\ bc_table_list = <<>>
    /\ stats = ZeroStats /\ no_counts = "None" /\ warnings = 0 /\ df = <<>>
    /\ dpc = "loop"

DecoderNext ==
    \/ ProcessLine
    \/ BlankLine
    \/ EndOfInput
    \/ Aggregate

DecoderSpec == DecoderInit /\ [][DecoderNext]_vars


\* ================================================================ claims
SomeFailed == \E i \in DOMAIN tasks : tasks[i].state = "failed"

RECURSIVE SumTo(_, _)
SumTo(f, n) == IF n = 0 THEN 0 ELSE f[n] + SumTo(f, n - 1)

\* the sum of sample i's count column over the rows of its SampleTable
SampleSum(i) == SumTo([r \in DOMAIN dfs[i].rows |-> dfs[i].rows[r].vals[i]],
                      Len(dfs[i].rows))

\* the sum of sample i's count column over the rows main returned
FinalSum(i) == SumTo([r \in DOMAIN final[1] |-> final[1][r].vals[i]],
                     Len(final[1]))

\* C1: once main has returned, every sample's column of the returned table
\* sums to what the sample's own SampleTable sums to.
C1_MergeConservation ==
    pc = "done" => \A i \in DOMAIN dfs : FinalSum(i) = SampleSum(i)

C1_Witness ==
    /\ pc = "done"
    /\ files = ScenarioFour
    /\ FinalSum(4) = 4
    /\ \E r \in DOMAIN final[1] : final[1][r].vals[4] = 0

\* C2: on an empty list of tables reduce_dataframes ends in a fatal error: it
\* never gets to run a round, to finalize or to return.
C2_EmptyListIsFatal ==
    Len(files) = 0 => pc \in {"load", "reduce", "raised"}

\* the tables a round starts with, and those it hands to the next round
RoundShrinks ==
    (pc = "collect" /\ pc' \in {"dispatch", "finalize"} /\ Len(dfs) >= 2)
        => Len(merged_dfs') + Len(odd_dfs') < 2 * Len(paired_dfs) + Len(odd_dfs)

ReturnedOne ==
    /\ pc \in {"finalize", "done"}
    /\ Len(merged_dfs) = 1
    /\ merged_df = <<merged_dfs[1]>>

\* C3: with one table or more the reduction ends, with exactly one table
\* unless a merge raised, and with two or more every round hands on fewer
\* tables than it started with.
C3_Termination ==
    /\ (Len(files) >= 1) ~> (ReturnedOne \/ pc = "raised")
    /\ [](pc = "raised" => SomeFailed)
    /\ [](pc \in {"finalize", "done"} => ReturnedOne)
    /\ [][RoundShrinks]_vars

\* three tables: the leftover of the first round is merged in the second
C3_Witness ==
    /\ pc = "finalize"
    /\ Len(dfs) = 3
    /\ iter = 2
    /\ round_num = 1
    /\ merged_df[1].cols = {1, 2, 3}

\* C4: what the decoder writes sums to total_counts - skipped_counts (to the
\* sum of all weights when no line is skipped).
C4_AggregatorConservation ==
    dpc = "done" =>
        SumTo([i \in DOMAIN df |-> df[i].count], Len(df))
            = stats.total_counts - stats.skipped_counts

\* C5: the seqs-only warning is printed once if a weight-less line was read
\* and never otherwise.
C5_WarningOnce ==
    warnings = IF \E i \in DOMAIN consumed : consumed[i].parts = 1
               THEN 1 ELSE 0

Unfinished(t) == t.state \in {"pending", "running"}

\* C6: a work item of a later round exists only when every work item of the
\* rounds before it is done, the returned table exists only when every work
\* item is done, and paired_dfs and merged_dfs are assigned only when no work
\* item is unfinished.
C6_RoundBarrier ==
    /\ [](\A i, j \in DOMAIN tasks :
             tasks[i].round < tasks[j].round => tasks[i].state = "done")
    /\ [](merged_df # <<>> =>
             \A i \in DOMAIN tasks : tasks[i].state = "done")
    /\ [][(paired_dfs' # paired_dfs \/ merged_dfs' # merged_dfs)
             => \A i \in DOMAIN tasks : ~Unfinished(tasks[i])]_vars

C6_Witness ==
    /\ Len(tasks) = 3
    /\ tasks[1].round = 1 /\ tasks[2].round = 1 /\ tasks[3].round = 2
    /\ tasks[3].state = "running"

\* the main thread is blocked on a work item other than a failed one
MainWaits ==
    \/ /\ pc = "collect"
       /\ Len(results) < Len(paired_dfs)
       /\ Unfinished(tasks[NextTask])
    \/ /\ pc = "shutdown"
       /\ \E i \in CurTasks : tasks[i].state = "running"

NoTableAfterFailure ==
    SomeFailed =>
        /\ merged_df = <<>> /\ final = <<>>
        /\ pc \in {"collect", "shutdown", "raised"}
        /\ \A i \in DOMAIN tasks : tasks[i].round <= iter

\* C7 as claimed: once a merge has failed the reduction ends at once, waiting
\* for no other work item; nothing is retried, started or returned.
C7_FailsImmediately ==
    /\ NoTableAfterFailure
    /\ SomeFailed => ~MainWaits

\* C7 as amended: a failed merge ends the reduction without a table, a retry
\* or a later round, but only after the results before it were taken and the
\* running work items of the round have finished; the work items not yet
\* started are cancelled.
C7_FailureEndsReduction ==
    /\ [](NoTableAfterFailure)
    /\ [](pc = "raised" =>
             /\ SomeFailed
             /\ \A i \in DOMAIN tasks : ~Unfinished(tasks[i])
             /\ \A i \in 1..Len(results) : tasks[Base + i].state = "done"
             /\ tasks[NextTask].state = "failed")
    /\ [][SomeFailed =>
             /\ Len(tasks') = Len(tasks)
             /\ \A i \in DOMAIN tasks :
                   /\ tasks[i].state = "failed" => tasks'[i].state = "failed"
                   /\ tasks[i].state = "cancelled" => tasks'[i] = tasks[i]]_vars
    /\ SomeFailed ~> (pc = "raised")

\* the failure of the first pair was raised only after the second pair's
\* merge, which was running, had finished; its result is dropped
C7_Witness ==
    /\ pc = "raised"
    /\ results = <<>>
    /\ \E i, j \in CurTasks : /\ i < j
                              /\ tasks[i].state = "failed"
                              /\ tasks[j].state = "done"

\* the row of key k in the table reduce_dataframes returned
MergedRow(k) == RowsWithKey(merged_df[1].rows, k)[1]

\* C8: in the rows main returns every sample column holds an integer, 0 where
\* the merge left the cell unset, total is the sum of the row's sample
\* columns, n_samples the number of them above 0, and the rows come by total
\* descending.
C8_FinalizerColumns ==
    pc = "done" =>
        LET rows == final[1]
            n == Len(dfs)
        IN  /\ KeySet(rows) = KeySet(merged_df[1].rows)
            /\ \A r \in DOMAIN rows :
                  /\ DOMAIN rows[r].vals = 1..n
                  /\ \A c \in 1..n :
                        /\ rows[r].vals[c] \in Nat
                        /\ rows[r].vals[c] =
                              IF MergedRow(rows[r].key).vals[c] = NaN THEN 0
                              ELSE MergedRow(rows[r].key).vals[c]
                  /\ rows[r].total = SumTo(rows[r].vals, n)
                  /\ rows[r].n_samples =
                        Cardinality({c \in 1..n : rows[r].vals[c] >= 1})
            /\ \A r \in 1..(Len(rows) - 1) : rows[r].total >= rows[r + 1].total

C8_Witness ==
    /\ pc = "done"
    /\ files = ScenarioAB
    /\ final[1] =
          <<[key |-> 2, vals |-> <<2, 3>>, total |-> 5, n_samples |-> 2],
            [key |-> 3, vals |-> <<0, 4>>, total |-> 4, n_samples |-> 1],
            [key |-> 1, vals |-> <<1, 0>>, total |-> 1, n_samples |-> 1]>>

\* the tables that merging the SampleTables of S pair by pair can end in,
\* over every way to split S and every order of the two sides
RECURSIVE TreeResults(_)
TreeResults(S) ==
    IF Cardinality(S) = 1 THEN {dfs[CHOOSE i \in S : TRUE]}
    ELSE UNION {{merge_dataframes(<<a, b>>) :
                     a \in TreeResults(A), b \in TreeResults(S \ A)} :
                 A \in (SUBSET S) \ {{}, S}}

\* a table up to the order of its rows
Content(t) ==
    [cols |-> t.cols, n |-> Len(t.rows),
     rows |-> {t.rows[i] : i \in DOMAIN t.rows}]

\* C9: for up to four SampleTables, every pairing sequence ends in the table
\* reduce_dataframes returns, up to row order.
C9_OrderIndependence ==
    (merged_df # <<>> /\ Len(dfs) <= 4) =>
        \A t \in TreeResults(1..Len(dfs)) :
            Content(t) = Content(merged_df[1])

C9_Witness ==
    /\ merged_df # <<>>
    /\ Len(dfs) = 4
    /\ \A i \in 1..4 : Len(dfs[i].rows) >= 2
    /\ Len(merged_df[1].rows) = 4

NumWhere(s, P(_)) == Cardinality({i \in DOMAIN s : P(s[i])})

\* C10: after every line the loop has taken the line and count totals split
\* into skipped, matched and unmatched, and exactly the lines that were not
\* skipped have a record.
C10_StatsPartition ==
    /\ stats.total_lines =
          stats.skipped_lines + stats.matched_lines + stats.unmatched_lines
    /\ stats.total_counts =
          stats.skipped_counts + stats.matched_counts + stats.unmatched_counts
    /\ Len(bc_table_list) = stats.matched_lines + stats.unmatched_lines
    /\ stats.total_lines = NumWhere(consumed, LAMBDA l : l.parts # 0)
    /\ stats.skipped_lines =
          NumWhere(consumed, LAMBDA l : l.parts # 0 /\ l.weight < MIN_COUNT)
    /\ stats.matched_lines = NumWhere(bc_table_list, LAMBDA r : r.key # None)

C10_Witness ==
    /\ dpc = "aggregate"
    /\ stats.total_lines > MAX_SEQS
    /\ stats.skipped_lines = 1
    /\ stats.matched_lines = 1
    /\ stats.unmatched_lines = 1

====
